---- MODULE Spec2Model ----
(***************************************************************************)
(* Model of tools/mlir-tblgen/OpDefinitionsGen.cpp: the op definitions     *)
(* generator.  One run takes one operation description (the record `op`),  *)
(* builds the OpClass (its trait list and its method list) pass by pass in *)
(* the order of the OpEmitter constructor, and renders the class as a      *)
(* declaration or as out-of-line definitions.                               *)
(*                                                                         *)
(* Text is modelled as a sequence of string chunks; concatenation of text  *)
(* is concatenation of sequences.  In a parameter list every ',' and '='   *)
(* and every blank next to one of them is a chunk of its own, so that the  *)
(* splitting done by removeParamDefaultValue is modelled character for     *)
(* character.  A return type ending in '*' or '&' has that character as    *)
(* its last chunk, and a text ending in a line break has the line break    *)
(* as its last chunk.                                                      *)
(***************************************************************************)
EXTENDS Integers, Sequences, FiniteSets, TLC

VARIABLES op, pc, traits, methods, emitted, declOut, defOut

vars == <<op, pc, traits, methods, emitted, declOut, defOut>>

(***************************************************************************)
(* Bounds of the model.                                                    *)
(***************************************************************************)
MaxOperands == 2
MaxResults == 2
MaxAttrs == 2
MaxTraits == 2
MaxBuilders == 1
MaxParamLen == 5

(***************************************************************************)
(* Text helpers.                                                           *)
(***************************************************************************)
Digits == <<"0", "1", "2", "3", "4", "5", "6", "7", "8", "9">>

\* std::to_string / Twine(int) for the small numbers the model reaches.
ToStr(n) == Digits[n + 1]

RECURSIVE Flatten(_)
Flatten(ts) == IF ts = <<>> THEN <<>> ELSE Head(ts) \o Flatten(Tail(ts))

\* The text `sub` occurs in `text` as a contiguous run of chunks.
Contains(text, sub) ==
  \E i \in 0..(Len(text) - Len(sub)) :
    \A j \in 1..Len(sub) : text[i + j] = sub[j]

\* The number of chunks of `text` equal to `c`.
Count(text, c) == Cardinality({i \in 1..Len(text) : text[i] = c})

\* The text without its blank chunks.
NoBlanks(text) == SelectSeq(text, LAMBDA c : c # " ")

\* Position of the first chunk equal to `c` in `text`, 0 when there is none.
IndexOf(text, c) ==
  IF \E i \in 1..Len(text) : text[i] = c
  THEN CHOOSE i \in 1..Len(text) :
         text[i] = c /\ \A j \in 1..(i - 1) : text[j] # c
  ELSE 0

\* Position of the last chunk equal to `c` in `text`, 0 when there is none.
LastIndexOf(text, c) ==
  IF \E i \in 1..Len(text) : text[i] = c
  THEN CHOOSE i \in 1..Len(text) :
         text[i] = c /\ \A j \in (i + 1)..Len(text) : text[j] # c
  ELSE 0

(***************************************************************************)
(* Names the generator is configured with.                                 *)
(***************************************************************************)
tblgenNamePrefix == "tblgen_"
generatedArgName == "tblgen_arg"
builderOpState == "tblgen_state"

\* What a read past the end of a list yields when it does not trap.
Garbage == "<out-of-bounds>"

(***************************************************************************)
(* The operation description handed to the generator (Operator, Record).   *)
(***************************************************************************)
OperandNames == <<"lhs", "rhs", "third", "fourth">>
ResultNames == <<"out", "carry", "rest", "more">>
AttrNames == <<"axis", "value", "perm", "mode">>
ClassName == "AddOp"
OperationName == "x.add"

\* Operand and result lists: at most one variadic member, and it is the last.
ValueSeqs(names, max, NamedOpts, PredOpts) ==
  UNION {
    { [i \in 1..n |->
         [name |-> IF nm[i] THEN names[i] ELSE "",
          variadic |-> (v /\ i = n),
          pred |-> p[i]]] :
      nm \in [1..n -> NamedOpts], p \in [1..n -> PredOpts], v \in BOOLEAN }
    : n \in 0..max }

\* The kinds of attribute the model draws from.
AttrKind(derived, hasDefault, optional, pred, typeAttr) ==
  [derived |-> derived, hasDefault |-> hasDefault, optional |-> optional,
   pred |-> pred, typeAttr |-> typeAttr]

RequiredAttr == AttrKind(FALSE, FALSE, FALSE, FALSE, FALSE)
RequiredPredAttr == AttrKind(FALSE, FALSE, FALSE, TRUE, FALSE)
DefaultAttr == AttrKind(FALSE, TRUE, FALSE, FALSE, FALSE)
DefaultPredAttr == AttrKind(FALSE, TRUE, FALSE, TRUE, FALSE)
OptionalPredAttr == AttrKind(FALSE, FALSE, TRUE, TRUE, FALSE)
TypeAttr == AttrKind(FALSE, FALSE, FALSE, FALSE, TRUE)
DerivedAttr == AttrKind(TRUE, FALSE, FALSE, FALSE, FALSE)

AttrKinds ==
  {RequiredAttr, RequiredPredAttr, DefaultAttr, DefaultPredAttr,
   OptionalPredAttr, TypeAttr, DerivedAttr}

\* Attribute lists: Operator keeps the native attributes first and the
\* derived attributes after them.
AttrSeqs(max, Kinds) ==
  UNION {
    { [i \in 1..n |->
         [name |-> AttrNames[i], derived |-> k[i].derived,
          hasDefault |-> k[i].hasDefault, optional |-> k[i].optional,
          pred |-> k[i].pred, typeAttr |-> k[i].typeAttr]] :
      k \in { f \in [1..n -> Kinds] :
                \A i \in 1..n, j \in 1..n :
                  (i < j /\ f[i].derived) => f[j].derived } }
    : n \in 0..max }

NativeTrait(name) == [kind |-> "native", name |-> name]
PredTrait == [kind |-> "pred", name |-> "operands are compatible"]
SecondPredTrait == [kind |-> "pred", name |-> "results are compatible"]

TraitChoices ==
  {NativeTrait("Commutative"), NativeTrait("SameOperandsAndResultType"),
   NativeTrait("FirstAttrDerivedResultType"), PredTrait}

TraitSeqs(max, Choices) == UNION {[1..n -> Choices] : n \in 0..max}

\* The arguments of an op are its operands and its native attributes, in
\* the declared order; the model draws the two orders that keep each list
\* together.
RECURSIVE Repeat(_, _)
Repeat(x, n) == IF n = 0 THEN <<>> ELSE <<x>> \o Repeat(x, n - 1)

NumNative(attributes) ==
  Cardinality({i \in 1..Len(attributes) : ~attributes[i].derived})

MkArgs(operands, attributes, attrsFirst) ==
  IF attrsFirst
  THEN Repeat("attribute", NumNative(attributes)) \o Repeat("operand", Len(operands))
  ELSE Repeat("operand", Len(operands)) \o Repeat("attribute", NumNative(attributes))

(***************************************************************************)
(* Parameter-list texts.  The chunk "x" stands for any run of characters   *)
(* other than ',', '=' and the blank.                                      *)
(***************************************************************************)
ParamChars == {"x", " ", "=", ","}

\* "int a = 1, Foo *b"
ExampleParams == <<"int a", " ", "=", " ", "1", ",", " ", "Foo *b">>

\* "ArrayRef<int> v = {1, 2}, bool f": a default value that holds a comma.
BraceParams ==
  <<"ArrayRef<int> v", " ", "=", " ", "{", "1", ",", " ", "2", "}", ",", " ",
    "bool f">>

\* "Builder *b, int n = 0"
TailDefaultParams == <<"Builder *b", ",", " ", "int n", " ", "=", " ", "0">>

\* The entries of a parameter list: the runs between the commas that are not
\* inside braces.
RECURSIVE SplitFrom(_, _, _, _)
SplitFrom(t, i, depth, cur) ==
  IF i > Len(t) THEN <<cur>>
  ELSE IF t[i] = "," /\ depth = 0
       THEN <<cur>> \o SplitFrom(t, i + 1, 0, <<>>)
       ELSE SplitFrom(t, i + 1,
                      depth + (IF t[i] = "{" THEN 1
                               ELSE IF t[i] = "}" THEN -1 ELSE 0),
                      Append(cur, t[i]))

TopEntries(t) == IF t = <<>> THEN <<>> ELSE SplitFrom(t, 1, 0, <<>>)

\* An entry's declarator (the part before its first '=') and its default
\* value (the part after it).
Declarator(e) ==
  IF IndexOf(e, "=") = 0 THEN e ELSE SubSeq(e, 1, IndexOf(e, "=") - 1)

DefaultValue(e) ==
  IF IndexOf(e, "=") = 0 THEN <<>> ELSE SubSeq(e, IndexOf(e, "=") + 1, Len(e))

HasCommaInDefault(t) ==
  \E k \in 1..Len(TopEntries(t)) : Count(DefaultValue(TopEntries(t)[k]), ",") > 0

\* A chunk that is neither punctuation nor a blank.
IsWord(c) == c \notin {" ", "=", ",", "{", "}"}

HasWord(t) == \E i \in 1..Len(t) : IsWord(t[i])

\* A parameter list a C++ compiler accepts: every entry declares something,
\* and a default value, when given, is not empty.
WellFormedParams(t) ==
  \A k \in 1..Len(TopEntries(t)) :
    LET e == TopEntries(t)[k] IN
      /\ HasWord(Declarator(e))
      /\ IndexOf(e, "=") # 0 => HasWord(DefaultValue(e))

ParamTexts ==
  { t \in UNION {[1..n -> ParamChars] : n \in 0..MaxParamLen} :
      WellFormedParams(t) }
  \cup {ExampleParams, BraceParams, TailDefaultParams}

\* Custom builders (the "builders" list of the record): parameter text and
\* body text; an empty body makes the method declaration-only.
BuilderParamTexts == {<<>>, ExampleParams, BraceParams, TailDefaultParams}

CustomBody == <<"  /* custom builder body */", "\n">>

BuilderSeqs(max) ==
  UNION {[1..n -> [params : BuilderParamTexts, body : {<<>>, CustomBody}]]
         : n \in 0..max}

(***************************************************************************)
(* The operation descriptions the model is run on.  Each family varies     *)
(* some parts of the description and keeps the others as in BaseOp.        *)
(***************************************************************************)
BaseOp ==
  [operands |-> <<>>, results |-> <<>>, attributes |-> <<>>, args |-> <<>>,
   traits |-> <<>>, builders |-> <<>>,
   hasCanonicalizer |-> FALSE, hasConstantFolder |-> FALSE,
   hasFolder |-> FALSE, parser |-> FALSE, printer |-> FALSE,
   verifier |-> FALSE]

\* Arity and traits: named operands, unnamed results, every trait list.
ArityOps ==
  { [BaseOp EXCEPT !.operands = os, !.results = rs, !.traits = ts,
                   !.args = MkArgs(os, <<>>, FALSE)] :
    os \in ValueSeqs(OperandNames, MaxOperands, {TRUE}, {FALSE}),
    rs \in ValueSeqs(ResultNames, MaxResults, {FALSE}, {FALSE}),
    ts \in TraitSeqs(MaxTraits, TraitChoices) }

\* Names: operands and results named or not.
NamingOps ==
  { [BaseOp EXCEPT !.operands = os, !.results = rs,
                   !.args = MkArgs(os, <<>>, FALSE)] :
    os \in ValueSeqs(OperandNames, MaxOperands, BOOLEAN, {FALSE}),
    rs \in ValueSeqs(ResultNames, MaxResults, BOOLEAN, {FALSE}) }

\* Verification: attributes of every kind, with and without an operand, a
\* result, a predicate trait and custom verification code.
VerifyOps ==
  { [BaseOp EXCEPT !.operands = os, !.results = rs, !.attributes = as,
                   !.traits = ts, !.verifier = v,
                   !.args = MkArgs(os, as, FALSE)] :
    os \in ValueSeqs(OperandNames, 1, {TRUE}, {TRUE}),
    rs \in ValueSeqs(ResultNames, 1, {FALSE}, {FALSE}),
    as \in AttrSeqs(MaxAttrs, AttrKinds),
    ts \in TraitSeqs(1, {PredTrait}),
    v \in BOOLEAN }

\* Type checks: operands and results with and without a type predicate.
TypeCheckOps ==
  { [BaseOp EXCEPT !.operands = os, !.results = rs,
                   !.args = MkArgs(os, <<>>, FALSE)] :
    os \in ValueSeqs(OperandNames, MaxOperands, {TRUE}, BOOLEAN),
    rs \in ValueSeqs(ResultNames, MaxResults, {FALSE}, BOOLEAN) }

\* Result-type deduction: the two propagation traits against operands,
\* results and the first attribute.
DeductionOps ==
  { [BaseOp EXCEPT !.operands = os, !.results = rs, !.attributes = as,
                   !.traits = ts, !.args = MkArgs(os, as, af)] :
    os \in ValueSeqs(OperandNames, MaxOperands, {TRUE}, {FALSE}),
    rs \in ValueSeqs(ResultNames, MaxResults, {FALSE}, {FALSE}),
    as \in AttrSeqs(1, {RequiredAttr, OptionalPredAttr, TypeAttr, DerivedAttr}),
    ts \in TraitSeqs(MaxTraits, {NativeTrait("SameOperandsAndResultType"),
                                 NativeTrait("FirstAttrDerivedResultType")}),
    af \in BOOLEAN }

\* Hand-written parts: custom builders beside declaration-only stubs.
CustomOps ==
  { [BaseOp EXCEPT !.builders = bs, !.hasCanonicalizer = f[1],
                   !.hasFolder = f[2]] :
    bs \in BuilderSeqs(MaxBuilders), f \in [1..2 -> BOOLEAN] }

\* Parser, printer, canonicalizer and folder flags against the result count.
FlagOps ==
  { [BaseOp EXCEPT !.results = rs,
                   !.hasCanonicalizer = f[1], !.hasConstantFolder = f[2],
                   !.hasFolder = f[3], !.parser = f[4], !.printer = f[5]] :
    rs \in ValueSeqs(ResultNames, MaxResults, {FALSE}, {FALSE}),
    f \in [1..5 -> BOOLEAN] }

\* Order of the checks: an attribute, an operand, a result and predicate
\* traits together, with and without custom verification code.
CheckOrderOps ==
  { [BaseOp EXCEPT !.operands = os, !.results = rs, !.attributes = as,
                   !.traits = ts, !.verifier = v,
                   !.args = MkArgs(os, as, FALSE)] :
    os \in ValueSeqs(OperandNames, 1, {TRUE}, BOOLEAN),
    rs \in ValueSeqs(ResultNames, 1, {FALSE}, BOOLEAN),
    as \in AttrSeqs(1, {RequiredPredAttr}),
    ts \in TraitSeqs(2, {PredTrait, SecondPredTrait}),
    v \in BOOLEAN }

OpSpecs ==
  ArityOps \cup NamingOps \cup VerifyOps \cup TypeCheckOps \cup DeductionOps
  \cup CustomOps \cup FlagOps \cup CheckOrderOps

(***************************************************************************)
(* What the generator asks of the operation description (class Operator    *)
(* and the attribute and constraint wrappers).                              *)
(***************************************************************************)
getNumOperands(o) == Len(o.operands)
getNumResults(o) == Len(o.results)
getNumArgs(o) == Len(o.args)
hasVariadicOperand(o) == \E i \in 1..Len(o.operands) : o.operands[i].variadic
hasVariadicResult(o) == \E i \in 1..Len(o.results) : o.results[i].variadic
hasTrait(o, name) ==
  \E i \in 1..Len(o.traits) :
    o.traits[i].kind = "native" /\ o.traits[i].name = name
getNumPredOpTraits(o) ==
  Cardinality({i \in 1..Len(o.traits) : o.traits[i].kind = "pred"})
getReturnType(a) == IF a.typeAttr THEN <<"Type">> ELSE <<"APInt">>
getStorageType(a) == IF a.typeAttr THEN "TypeAttr" ELSE "IntegerAttr"
getDerivedCodeBody(a) == "return getType();"
getConvertFromStorageCall(self) == self \o <<".getValue()">>
getDefaultValue(a) ==
  <<"mlir::Builder(this->getContext())", ".getI32IntegerAttr(", "0", ")">>

(***************************************************************************)
(* The class under construction: OpClass, OpMethod.                        *)
(***************************************************************************)
\* OpClass::addTrait
addTraitNoPrefix(ts, trait) == Append(ts, trait)

addTrait(ts, trait) == Append(ts, <<"OpTrait::">> \o trait)

\* newMethod putting the new method in front of the others.
newMethodAtFront(ms, retType, name, params, static, declOnly, body) ==
  <<[retType |-> retType, name |-> name, params |-> params,
     static |-> static, declOnly |-> declOnly,
     body |-> IF declOnly THEN <<>> ELSE body]>> \o ms

\* OpClass::newMethod with OpMethodBody: a declaration-only method records
\* no body.
newMethod(ms, retType, name, params, static, declOnly, body) ==
  Append(ms, [retType |-> retType, name |-> name, params |-> params,
              static |-> static, declOnly |-> declOnly,
              body |-> IF declOnly THEN <<>> ELSE body])

(***************************************************************************)
(* OpEmitter::genTraits                                                    *)
(***************************************************************************)
ResultArityTraitNoZeroOne(o) ==
  IF hasVariadicResult(o)
  THEN IF getNumResults(o) = 1 THEN <<"VariadicResults">>
       ELSE <<"AtLeastNResults<", ToStr(getNumResults(o) - 1), ">::Impl">>
  ELSE <<"NResults<", ToStr(getNumResults(o)), ">::Impl">>

ResultArityTrait(o) ==
  IF hasVariadicResult(o)
  THEN IF getNumResults(o) = 1 THEN <<"VariadicResults">>
       ELSE <<"AtLeastNResults<", ToStr(getNumResults(o) - 1), ">::Impl">>
  ELSE CASE getNumResults(o) = 0 -> <<"ZeroResult">>
         [] getNumResults(o) = 1 -> <<"OneResult">>
         [] OTHER -> <<"NResults<", ToStr(getNumResults(o)), ">::Impl">>

OperandArityTrait(o) ==
  IF hasVariadicOperand(o)
  THEN IF getNumOperands(o) = 1 THEN <<"VariadicOperands">>
       ELSE <<"AtLeastNOperands<", ToStr(getNumOperands(o) - 1), ">::Impl">>
  ELSE <<"NOperands<", ToStr(getNumOperands(o)), ">::Impl">>

\* The loop over op.getTraits(): only native traits are added.
RECURSIVE addNativeTraits(_, _)
addNativeTraits(ts, opTraits) ==
  IF opTraits = <<>> THEN ts
  ELSE addNativeTraits(
         IF Head(opTraits).kind = "native"
         THEN addTrait(ts, <<Head(opTraits).name>>) ELSE ts,
         Tail(opTraits))

genTraitsOperandArityFirst(ts, o) ==
  addNativeTraits(
    addTrait(addTrait(ts, ResultArityTrait(o)), OperandArityTrait(o)),
    o.traits)

genTraitsList(ts, o) ==
  addTrait(addNativeTraits(addTrait(ts, ResultArityTrait(o)), o.traits),
           OperandArityTrait(o))

genTraits ==
  /\ pc = "genTraits"
  /\ traits' = genTraitsList(traits, op)
  /\ pc' = "genOpNameGetter"
  /\ UNCHANGED <<op, methods, emitted, declOut, defOut>>

(***************************************************************************)
(* OpEmitter::genOpNameGetter                                              *)
(***************************************************************************)
genOpNameGetter ==
  /\ pc = "genOpNameGetter"
  /\ methods' = newMethod(methods, <<"StringRef">>, "getOperationName", <<>>,
                          TRUE, FALSE,
                          <<"  return \"", OperationName, "\";", "\n">>)
  /\ pc' = "genNamedOperandGetters"
  /\ UNCHANGED <<op, traits, emitted, declOut, defOut>>

(***************************************************************************)
(* OpEmitter::genNamedOperandGetters.  `i` is the operand's 0-based index. *)
(***************************************************************************)
SingleOperandBody(i) ==
  <<"  return this->getOperation()->getOperand(", ToStr(i), ");", "\n">>

VariadicOperandBody(i) ==
  <<"\n        assert(getOperation()->getNumOperands() >= ", ToStr(i),
    ");\n        return {std::next(operand_begin(), ", ToStr(i),
    "), operand_end()};\n      ">>

RECURSIVE operandGettersFromAll(_, _, _)
operandGettersFromAll(ms, o, i) ==
  IF i = getNumOperands(o) THEN ms
  ELSE LET operand == o.operands[i + 1] IN
    IF ~operand.variadic
    THEN operandGettersFromAll(
           newMethod(ms, <<"Value ", "*">>, operand.name, <<>>, FALSE, FALSE,
                     SingleOperandBody(i)), o, i + 1)
    ELSE operandGettersFromAll(
           newMethod(ms, <<"Operation::operand_range">>, operand.name, <<>>,
                     FALSE, FALSE, VariadicOperandBody(i)), o, i + 1)

RECURSIVE operandGettersFrom(_, _, _)
operandGettersFrom(ms, o, i) ==
  IF i = getNumOperands(o) THEN ms
  ELSE LET operand == o.operands[i + 1] IN
    IF operand.name = "" THEN operandGettersFrom(ms, o, i + 1)
    ELSE IF ~operand.variadic
    THEN operandGettersFrom(
           newMethod(ms, <<"Value ", "*">>, operand.name, <<>>, FALSE, FALSE,
                     SingleOperandBody(i)), o, i + 1)
    ELSE operandGettersFrom(
           newMethod(ms, <<"Operation::operand_range">>, operand.name, <<>>,
                     FALSE, FALSE, VariadicOperandBody(i)), o, i + 1)

genNamedOperandGetters ==
  /\ pc = "genNamedOperandGetters"
  /\ methods' = operandGettersFrom(methods, op, 0)
  /\ pc' = "genNamedResultGetters"
  /\ UNCHANGED <<op, traits, emitted, declOut, defOut>>

(***************************************************************************)
(* OpEmitter::genNamedResultGetters                                        *)
(***************************************************************************)
RECURSIVE resultGettersFrom(_, _, _)
resultGettersFrom(ms, o, i) ==
  IF i = getNumResults(o) THEN ms
  ELSE LET result == o.results[i + 1] IN
    IF result.variadic \/ result.name = "" THEN resultGettersFrom(ms, o, i + 1)
    ELSE resultGettersFrom(
           newMethod(ms, <<"Value ", "*">>, result.name, <<>>, FALSE, FALSE,
                     <<"  return this->getOperation()->getResult(", ToStr(i),
                       ");", "\n">>), o, i + 1)

genNamedResultGetters ==
  /\ pc = "genNamedResultGetters"
  /\ methods' = resultGettersFrom(methods, op, 0)
  /\ pc' = "genAttrGetters"
  /\ UNCHANGED <<op, traits, emitted, declOut, defOut>>

(***************************************************************************)
(* OpEmitter::genAttrGetters                                               *)
(***************************************************************************)
AttrGetterBody(a) ==
  IF a.derived THEN <<"  ", getDerivedCodeBody(a), "\n">>
  ELSE <<"  auto attr = ", "this->getAttr(\"", a.name,
         "\").dyn_cast_or_null<", getStorageType(a), ">()", ";", "\n">>
       \o (IF a.hasDefault
           THEN <<"    if (!attr)\n      return ">>
                \o getConvertFromStorageCall(getDefaultValue(a)) \o <<";", "\n">>
           ELSE <<>>)
       \o <<"  return ">> \o getConvertFromStorageCall(<<"attr">>) \o <<";", "\n">>

RECURSIVE attrGettersFrom(_, _)
attrGettersFrom(ms, as) ==
  IF as = <<>> THEN ms
  ELSE attrGettersFrom(
         newMethod(ms, getReturnType(Head(as)), Head(as).name, <<>>, FALSE,
                   FALSE, AttrGetterBody(Head(as))), Tail(as))

genAttrGetters ==
  /\ pc = "genAttrGetters"
  /\ methods' = attrGettersFrom(methods, op.attributes)
  /\ pc' = "genBuilder"
  /\ UNCHANGED <<op, traits, emitted, declOut, defOut>>

(***************************************************************************)
(* getArgumentName.  `index` is 0-based.  Reading an operand or an         *)
(* attribute past the end of its list is undefined: the read either traps  *)
(* or yields whatever lies there (OobOutcomes).                            *)
(***************************************************************************)
GeneratedArgNames ==
  <<"tblgen_arg_0", "tblgen_arg_1", "tblgen_arg_2", "tblgen_arg_3">>
ResultTypeNames ==
  <<"resultType0", "resultType1", "resultType2", "resultType3">>

OobOutcomes == {"trap", "junk", "junkTypeAttr"}

getArgumentName(o, index) ==
  IF index >= getNumOperands(o) THEN Garbage
  ELSE IF o.operands[index + 1].name # "" THEN o.operands[index + 1].name
  ELSE GeneratedArgNames[index + 1]

\* op.getAttribute(0) as read by the deduced-result-type builder.
firstAttribute(o, oob) ==
  IF Len(o.attributes) = 0
  THEN [name |-> Garbage, typeAttr |-> (oob = "junkTypeAttr")]
  ELSE [name |-> o.attributes[1].name, typeAttr |-> o.attributes[1].typeAttr]

(***************************************************************************)
(* OpEmitter::genStandaloneParamBuilder                                    *)
(***************************************************************************)
BuilderParamPrefix == <<"Builder *", ",", " ", "OperationState *", builderOpState>>

\* Lines 505-518: one parameter per result type.
RECURSIVE resultParams(_, _)
resultParams(o, i) ==
  IF i = getNumResults(o) THEN <<>>
  ELSE <<",", " ", IF o.results[i + 1].variadic THEN "ArrayRef<Type> " ELSE "Type ",
         IF o.results[i + 1].name = "" THEN ResultTypeNames[i + 1]
         ELSE o.results[i + 1].name>>
       \o resultParams(o, i + 1)

resultNamesOf(o) ==
  [i \in 1..getNumResults(o) |->
     IF o.results[i].name = "" THEN ResultTypeNames[i] ELSE o.results[i].name]

\* Lines 520-542: one parameter per argument; numOperands and numAttrs count
\* the operands and attributes met so far.
RECURSIVE argParams(_, _, _, _)
argParams(o, i, numOperands, numAttrs) ==
  IF i > getNumArgs(o) THEN <<>>
  ELSE IF o.args[i] = "operand"
  THEN <<",", " ",
         IF o.operands[numOperands + 1].variadic THEN "ArrayRef<Value *> "
         ELSE "Value *",
         getArgumentName(o, numOperands)>>
       \o argParams(o, i + 1, numOperands + 1, numAttrs)
  ELSE <<",", " ">>
       \o (IF o.attributes[numAttrs + 1].optional THEN <<"/*optional*/">> ELSE <<>>)
       \o <<getStorageType(o.attributes[numAttrs + 1]), " ",
            o.attributes[numAttrs + 1].name>>
       \o argParams(o, i + 1, numOperands, numAttrs + 1)

\* countArgs counting every argument under each kind.
countArgsEveryKind(o, kind) == getNumArgs(o)

countArgs(o, kind) == Cardinality({i \in 1..getNumArgs(o) : o.args[i] = kind})

RECURSIVE commaList(_)
commaList(names) ==
  IF names = <<>> THEN <<>>
  ELSE IF Len(names) = 1 THEN <<names[1]>>
  ELSE <<names[1], ", ">> \o commaList(Tail(names))

\* Lines 573-587: the expression every result type is deduced from.
deducedResultType(o, useAttrType, numOperands, oob) ==
  IF useAttrType
  THEN IF firstAttribute(o, oob).typeAttr
       THEN <<firstAttribute(o, oob).name, ".getValue()">>
       ELSE <<firstAttribute(o, oob).name, ".getType()">>
  ELSE <<getArgumentName(o, 0)>>
       \o (IF numOperands = 1 /\ hasVariadicOperand(o) THEN <<".front()">> ELSE <<>>)
       \o <<"->getType()">>

RECURSIVE repeatExpr(_, _)
repeatExpr(e, n) ==
  IF n = 0 THEN <<>>
  ELSE IF n = 1 THEN e
  ELSE e \o <<", ">> \o repeatExpr(e, n - 1)

\* Lines 553-593: push all result types.
pushResultTypes(o, deduced, useAttrType, numOperands, oob) ==
  IF getNumResults(o) = 0 THEN <<>>
  ELSE IF ~deduced
  THEN LET numNonVariadicResults ==
             getNumResults(o) - (IF hasVariadicResult(o) THEN 1 ELSE 0)
       IN (IF numNonVariadicResults > 0
           THEN <<"  ", builderOpState, "->addTypes({">>
                \o commaList(SubSeq(resultNamesOf(o), 1, numNonVariadicResults))
                \o <<"});", "\n">>
           ELSE <<>>)
          \o (IF hasVariadicResult(o)
              THEN <<"  ", builderOpState, "->addTypes(",
                     resultNamesOf(o)[getNumResults(o)], ");", "\n">>
              ELSE <<>>)
  ELSE <<"  ", builderOpState, "->addTypes({">>
       \o repeatExpr(deducedResultType(o, useAttrType, numOperands, oob),
                     getNumResults(o))
       \o <<"});\n", "\n">>

\* Lines 595-609: push all operands.
pushOperands(o, numOperands) ==
  LET numNonVariadicOperands ==
        numOperands - (IF hasVariadicOperand(o) THEN 1 ELSE 0)
  IN (IF numNonVariadicOperands > 0
      THEN <<"  ", builderOpState, "->addOperands({">>
           \o commaList([i \in 1..numNonVariadicOperands |->
                           getArgumentName(o, i - 1)])
           \o <<"});", "\n">>
      ELSE <<>>)
     \o (IF hasVariadicOperand(o)
         THEN <<"  ", builderOpState, "->addOperands(",
                getArgumentName(o, numOperands - 1), ");", "\n">>
         ELSE <<>>)

\* Lines 611-624: push all attributes.
RECURSIVE pushAttributes(_)
pushAttributes(as) ==
  IF as = <<>> THEN <<>>
  ELSE (IF Head(as).derived THEN <<>>
        ELSE (IF Head(as).optional
              THEN <<"  if (", Head(as).name, ") ", "{", "\n">> ELSE <<>>)
             \o <<"  ", builderOpState, "->addAttribute(\"", Head(as).name,
                  "\", ", Head(as).name, ");", "\n">>
             \o (IF Head(as).optional THEN <<"  }", "\n">> ELSE <<>>))
       \o pushAttributes(Tail(as))

\* Whether the deduced-result-type body reads operand 0 or attribute 0 of an
\* empty list.
readsOutOfBounds(o, useOperandType, useAttrType) ==
  /\ getNumResults(o) > 0
  /\ useOperandType \/ useAttrType
  /\ IF useAttrType THEN Len(o.attributes) = 0 ELSE getNumOperands(o) = 0

\* The whole function: the method list after it and how it ended
\* ("ok", "fatal": PrintFatalError, "crashed": a trapped read).
genStandaloneParamBuilder(ms, o, useOperandType, useAttrType, oob) ==
  LET deduced == useOperandType \/ useAttrType
      numOperands == countArgs(o, "operand")
      numAttrs == countArgs(o, "attribute")
      paramList == BuilderParamPrefix
                   \o (IF ~deduced THEN resultParams(o, 0) ELSE <<>>)
                   \o argParams(o, 1, 0, 0)
  IN IF useOperandType /\ useAttrType THEN [status |-> "fatal", methods |-> ms]
     ELSE IF numOperands + numAttrs # getNumArgs(o)
     THEN [status |-> "fatal", methods |-> ms]
     ELSE IF readsOutOfBounds(o, useOperandType, useAttrType) /\ oob = "trap"
     THEN [status |-> "crashed", methods |-> ms]
     ELSE [status |-> "ok",
           methods |->
             newMethod(ms, <<"void">>, "build", paramList, TRUE, FALSE,
                       pushResultTypes(o, deduced, useAttrType, numOperands, oob)
                       \o pushOperands(o, numOperands)
                       \o pushAttributes(o.attributes))]

(***************************************************************************)
(* OpEmitter::genBuilder                                                   *)
(***************************************************************************)
\* Lines 631-647: the custom builders.
RECURSIVE customBuilders(_, _)
customBuilders(ms, bs) ==
  IF bs = <<>> THEN ms
  ELSE customBuilders(
         newMethod(ms, <<"void">>, "build", Head(bs).params, TRUE,
                   Head(bs).body = <<>>, Head(bs).body),
         Tail(bs))

AggregatedParams ==
  BuilderParamPrefix
  \o <<",", " ", "ArrayRef<Type> resultTypes", ",", " ",
       "ArrayRef<Value *> operands", ",", " ",
       "ArrayRef<NamedAttribute> attributes">>

\* aggregatedBody with both assertions whatever the lists hold.
aggregatedBodyAlwaysAsserts(o) ==
  LET numNonVariadicResults ==
        getNumResults(o) - (IF hasVariadicResult(o) THEN 1 ELSE 0)
      numNonVariadicOperands ==
        getNumOperands(o) - (IF hasVariadicOperand(o) THEN 1 ELSE 0)
  IN <<"  assert(resultTypes.size()",
       IF hasVariadicResult(o) THEN " >= " ELSE " == ",
       ToStr(numNonVariadicResults),
       "u && \"mismatched number of return types\");", "\n">>
     \o <<"  ", builderOpState, "->addTypes(resultTypes);", "\n">>
     \o <<"  assert(operands.size()",
          IF hasVariadicOperand(o) THEN " >= " ELSE " == ",
          ToStr(numNonVariadicOperands),
          "u && \"mismatched number of parameters\");", "\n">>
     \o <<"  ", builderOpState, "->addOperands(operands);\n", "\n">>
     \o <<"  for (const auto& pair : attributes)", "\n", "    ", builderOpState,
          "->addAttribute(pair.first, pair.second);", "\n">>

\* Lines 683-700: the body of the aggregated-parameter builder.
aggregatedBody(o) ==
  LET numNonVariadicResults ==
        getNumResults(o) - (IF hasVariadicResult(o) THEN 1 ELSE 0)
      numNonVariadicOperands ==
        getNumOperands(o) - (IF hasVariadicOperand(o) THEN 1 ELSE 0)
  IN (IF ~(hasVariadicResult(o) /\ numNonVariadicResults = 0)
      THEN <<"  assert(resultTypes.size()",
             IF hasVariadicResult(o) THEN " >= " ELSE " == ",
             ToStr(numNonVariadicResults),
             "u && \"mismatched number of return types\");", "\n">>
      ELSE <<>>)
     \o <<"  ", builderOpState, "->addTypes(resultTypes);", "\n">>
     \o (IF ~(hasVariadicOperand(o) /\ numNonVariadicOperands = 0)
         THEN <<"  assert(operands.size()",
                IF hasVariadicOperand(o) THEN " >= " ELSE " == ",
                ToStr(numNonVariadicOperands),
                "u && \"mismatched number of parameters\");", "\n">>
         ELSE <<>>)
     \o <<"  ", builderOpState, "->addOperands(operands);\n", "\n">>
     \o <<"  for (const auto& pair : attributes)", "\n", "    ", builderOpState,
          "->addAttribute(pair.first, pair.second);", "\n">>

\* Line 706: whether the third builder is asked for.
wantsDeducedBuilderAlways(o) ==
  hasTrait(o, "SameOperandsAndResultType")
  \/ hasTrait(o, "FirstAttrDerivedResultType")

wantsDeducedBuilder(o) ==
  /\ ~hasVariadicResult(o)
  /\ hasTrait(o, "SameOperandsAndResultType")
     \/ hasTrait(o, "FirstAttrDerivedResultType")

\* The whole of genBuilder: the method list after it and how it ended.
genBuilderResult(ms, o, oob) ==
  LET standalone ==
        genStandaloneParamBuilder(customBuilders(ms, o.builders), o, FALSE,
                                  FALSE, oob)
      aggregated ==
        newMethod(standalone.methods, <<"void">>, "build", AggregatedParams,
                  TRUE, FALSE, aggregatedBody(o))
  IN IF standalone.status # "ok" THEN standalone
     ELSE IF wantsDeducedBuilder(o)
     THEN genStandaloneParamBuilder(
            aggregated, o, hasTrait(o, "SameOperandsAndResultType"),
            hasTrait(o, "FirstAttrDerivedResultType"), oob)
     ELSE [status |-> "ok", methods |-> aggregated]

genBuilder ==
  /\ pc = "genBuilder"
  /\ \E oob \in OobOutcomes :
       LET r == genBuilderResult(methods, op, oob) IN
         /\ methods' = r.methods
         /\ pc' = IF r.status = "ok" THEN "genParser" ELSE r.status
  /\ UNCHANGED <<op, traits, emitted, declOut, defOut>>

(***************************************************************************)
(* OpEmitter::genParser, OpEmitter::genPrinter                             *)
(***************************************************************************)
ParserCode == "return parseAdd(parser, result);"
PrinterCode == "printAdd(p, *this);"

genParser ==
  /\ pc = "genParser"
  /\ methods' =
       IF ~op.parser THEN methods
       ELSE newMethod(methods, <<"bool">>, "parse",
                      <<"OpAsmParser *parser", ",", " ", "OperationState *result">>,
                      TRUE, FALSE, <<"  ", ParserCode>>)
  /\ pc' = "genPrinter"
  /\ UNCHANGED <<op, traits, emitted, declOut, defOut>>

genPrinter ==
  /\ pc = "genPrinter"
  /\ methods' =
       IF ~op.printer THEN methods
       ELSE newMethod(methods, <<"void">>, "print", <<"OpAsmPrinter *p">>,
                      FALSE, FALSE, <<"  ", PrinterCode>>)
  /\ pc' = "genVerifier"
  /\ UNCHANGED <<op, traits, emitted, declOut, defOut>>

(***************************************************************************)
(* OpEmitter::genVerifier                                                  *)
(***************************************************************************)
VerifierCode == "  return verifyAdd(*this);"
getDescription(v) == "integer"
getAttrDescription(a) == "32-bit integer attribute"
getPredTemplate(t) == "verifyCompatibleOperands(*this->getOperation())"

\* Line 776: nothing to verify.
skipsVerifierIgnoringArgs(o) ==
  /\ ~o.verifier
  /\ getNumOperands(o) = 0
  /\ getNumResults(o) = 0
  /\ getNumPredOpTraits(o) = 0

skipsVerifier(o) ==
  /\ ~o.verifier
  /\ getNumArgs(o) = 0
  /\ getNumResults(o) = 0
  /\ getNumPredOpTraits(o) = 0

\* Lines 798-799.
allowMissingAttrDefaultOnly(a) == a.hasDefault

allowMissingAttr(a) == a.hasDefault \/ a.optional

\* Lines 786-821: the checks of one attribute.
verifyAttr(a) ==
  IF a.derived THEN <<>>
  ELSE <<"  auto ", tblgenNamePrefix, a.name, " = this->getAttr(\"", a.name,
         "\");", "\n">>
       \o (IF allowMissingAttr(a)
           THEN <<"  if (", tblgenNamePrefix, a.name, ") {", "\n">>
           ELSE <<"  if (!", tblgenNamePrefix, a.name,
                  ") return emitOpError(\"requires attribute '", a.name,
                  "'\");\n  {", "\n">>)
       \o (IF a.pred
           THEN <<"    if (!(", tblgenNamePrefix, a.name, ".isa<IntegerAttr>()",
                  ")) return emitOpError(\"attribute '", a.name,
                  "' failed to satisfy constraint: ", getAttrDescription(a),
                  "\");", "\n">>
           ELSE <<>>)
       \o <<"  }", "\n">>

RECURSIVE verifyAttrs(_)
verifyAttrs(as) ==
  IF as = <<>> THEN <<>> ELSE verifyAttr(Head(as)) \o verifyAttrs(Tail(as))

\* Lines 824-846: the type check of one operand or result; `index` 0-based.
verifyValue(value, index, isOperand) ==
  IF value.variadic THEN <<>>
  ELSE IF value.pred
  THEN <<"  if (!(", "this->getOperation()->get",
         IF isOperand THEN "Operand" ELSE "Result", "(", ToStr(index),
         ")->getType()", ".isInteger(32)", "))", "\n">>
       \o <<"    return emitOpError(\"",
            IF isOperand THEN "operand" ELSE "result", " #", ToStr(index)>>
       \o (IF getDescription(value) = ""
           THEN <<" type precondition failed">>
           ELSE <<" must be ", getDescription(value)>>)
       \o <<"\");", "\n">>
  ELSE <<>>

RECURSIVE verifyValues(_, _, _)
verifyValues(values, i, isOperand) ==
  IF i >= Len(values) THEN <<>>
  ELSE verifyValue(values[i + 1], i, isOperand)
       \o verifyValues(values, i + 1, isOperand)

\* Lines 856-863: the predicate traits.
RECURSIVE verifyTraits(_)
verifyTraits(ts) ==
  IF ts = <<>> THEN <<>>
  ELSE (IF Head(ts).kind = "pred"
        THEN <<"  if (!(", getPredTemplate(Head(ts)),
               "))\n    return emitOpError(\"failed to verify that ",
               Head(ts).name, "\");", "\n">>
        ELSE <<>>)
       \o verifyTraits(Tail(ts))

\* verifierBody with the trait checks ahead of the type checks.
verifierBodyTraitsFirst(o) ==
  verifyAttrs(o.attributes)
  \o verifyTraits(o.traits)
  \o verifyValues(o.operands, 0, TRUE)
  \o verifyValues(o.results, 0, FALSE)
  \o (IF o.verifier THEN <<VerifierCode, "\n">>
      ELSE <<"  return mlir::success();", "\n">>)

verifierBody(o) ==
  verifyAttrs(o.attributes)
  \o verifyValues(o.operands, 0, TRUE)
  \o verifyValues(o.results, 0, FALSE)
  \o verifyTraits(o.traits)
  \o (IF o.verifier THEN <<VerifierCode, "\n">>
      ELSE <<"  return mlir::success();", "\n">>)

genVerifier ==
  /\ pc = "genVerifier"
  /\ methods' =
       IF skipsVerifier(op) THEN methods
       ELSE newMethod(methods, <<"LogicalResult">>, "verify", <<>>, FALSE,
                      FALSE, verifierBody(op))
  /\ pc' = "genCanonicalizerDecls"
  /\ UNCHANGED <<op, traits, emitted, declOut, defOut>>

(***************************************************************************)
(* OpEmitter::genCanonicalizerDecls, OpEmitter::genFolderDecls             *)
(***************************************************************************)
genCanonicalizerDecls ==
  /\ pc = "genCanonicalizerDecls"
  /\ methods' =
       IF ~op.hasCanonicalizer THEN methods
       ELSE newMethod(methods, <<"void">>, "getCanonicalizationPatterns",
                      <<"OwningRewritePatternList ", "&", "results", ",", " ",
                        "MLIRContext *context">>,
                      TRUE, TRUE, <<>>)
  /\ pc' = "genFolderDecls"
  /\ UNCHANGED <<op, traits, emitted, declOut, defOut>>

constantFoldDecl(ms, o) ==
  IF ~o.hasConstantFolder THEN ms
  ELSE IF getNumResults(o) = 1
  THEN newMethod(ms, <<"Attribute">>, "constantFold",
                 <<"ArrayRef<Attribute> operands", ",", " ",
                   "MLIRContext *context">>, FALSE, TRUE, <<>>)
  ELSE newMethod(ms, <<"LogicalResult">>, "constantFold",
                 <<"ArrayRef<Attribute> operands", ",", " ",
                   "SmallVectorImpl<Attribute> ", "&", "results", ",", " ",
                   "MLIRContext *context">>, FALSE, TRUE, <<>>)

\* foldDecl with the single-value form for every operation with at most one
\* result.
foldDeclSingleUpToOne(ms, o) ==
  IF ~o.hasFolder THEN ms
  ELSE IF getNumResults(o) <= 1
  THEN newMethod(ms, <<"Value ", "*">>, "fold", <<>>, FALSE, TRUE, <<>>)
  ELSE newMethod(ms, <<"bool">>, "fold",
                 <<"SmallVectorImpl<Value *> ", "&", "results">>, FALSE, TRUE,
                 <<>>)

foldDecl(ms, o) ==
  IF ~o.hasFolder THEN ms
  ELSE IF getNumResults(o) = 1
  THEN newMethod(ms, <<"Value ", "*">>, "fold", <<>>, FALSE, TRUE, <<>>)
  ELSE newMethod(ms, <<"bool">>, "fold",
                 <<"SmallVectorImpl<Value *> ", "&", "results">>, FALSE, TRUE,
                 <<>>)

genFolderDecls ==
  /\ pc = "genFolderDecls"
  /\ methods' = foldDecl(constantFoldDecl(methods, op), op)
  /\ pc' = "constructed"
  /\ UNCHANGED <<op, traits, emitted, declOut, defOut>>

(***************************************************************************)
(* Rendering: OpMethodSignature, OpMethodBody, OpMethod, OpClass.          *)
(***************************************************************************)
endsWithRefOrPtr(type) ==
  type # <<>> /\ type[Len(type)] \in {"&", "*"}

\* OpMethodSignature::writeDeclTo
signatureWriteDeclTo(m) ==
  m.retType \o (IF endsWithRefOrPtr(m.retType) THEN <<>> ELSE <<" ">>)
  \o <<m.name, "(">> \o m.params \o <<")">>

\* The lambda of OpMethodSignature::writeDefTo: StringRef::split at the
\* first '=', then at the first ',' of what follows it.
RECURSIVE removeFrom(_, _)
removeFrom(params, result) ==
  IF params = <<>> THEN result
  ELSE LET eq == IndexOf(params, "=")
           first == IF eq = 0 THEN params ELSE SubSeq(params, 1, eq - 1)
           second == IF eq = 0 THEN <<>> ELSE SubSeq(params, eq + 1, Len(params))
           comma == IndexOf(second, ",")
       IN removeFrom(
            IF comma = 0 THEN <<>> ELSE SubSeq(second, comma + 1, Len(second)),
            result \o (IF result = <<>> THEN <<>> ELSE <<",", " ">>) \o first)

keepParamDefaultValue(params) == params

removeParamDefaultValue(params) == removeFrom(params, <<>>)

\* OpMethodSignature::writeDefTo
signatureWriteDefTo(m, namePrefix) ==
  m.retType \o (IF endsWithRefOrPtr(m.retType) THEN <<>> ELSE <<" ">>)
  \o (IF namePrefix = "" THEN <<>> ELSE <<namePrefix, "::">>)
  \o <<m.name, "(">> \o removeParamDefaultValue(m.params) \o <<")">>

\* OpMethodBody::writeTo
bodyWriteTo(body) ==
  body \o (IF body = <<>> \/ body[Len(body)] # "\n" THEN <<"\n">> ELSE <<>>)

\* OpMethod::writeDeclTo
methodWriteDeclTo(m) ==
  <<"  ">> \o (IF m.static THEN <<"static ">> ELSE <<>>)
  \o signatureWriteDeclTo(m) \o <<";">>

\* OpMethod::writeDefTo
methodWriteDefToAlways(m, namePrefix) ==
  signatureWriteDefTo(m, namePrefix) \o <<" {", "\n">> \o bodyWriteTo(m.body)
  \o <<"}">>

methodWriteDefTo(m, namePrefix) ==
  IF m.declOnly THEN <<>>
  ELSE signatureWriteDefTo(m, namePrefix) \o <<" {", "\n">>
       \o bodyWriteTo(m.body) \o <<"}">>

\* OpClass::writeDeclTo
RECURSIVE traitList(_)
traitList(ts) ==
  IF ts = <<>> THEN <<>> ELSE <<", ">> \o Head(ts) \o traitList(Tail(ts))

RECURSIVE methodDecls(_)
methodDecls(ms) ==
  IF ms = <<>> THEN <<>>
  ELSE methodWriteDeclTo(Head(ms)) \o <<"\n">> \o methodDecls(Tail(ms))

classWriteDeclTo(className, ts, ms) ==
  <<"class ", className, " : public Op<", className>> \o traitList(ts)
  \o <<"> {\npublic:", "\n", "  using Op::Op;", "\n">> \o methodDecls(ms) \o <<"};">>

\* classWriteDefTo writing nothing at all for a declaration-only method.
RECURSIVE classWriteDefToSkippingDeclOnly(_, _)
classWriteDefToSkippingDeclOnly(className, ms) ==
  IF ms = <<>> THEN <<>>
  ELSE (IF Head(ms).declOnly THEN <<>>
        ELSE methodWriteDefTo(Head(ms), className) \o <<"\n", "\n">>)
       \o classWriteDefToSkippingDeclOnly(className, Tail(ms))

\* OpClass::writeDefTo
RECURSIVE classWriteDefTo(_, _)
classWriteDefTo(className, ms) ==
  IF ms = <<>> THEN <<>>
  ELSE methodWriteDefTo(Head(ms), className) \o <<"\n", "\n">>
       \o classWriteDefTo(className, Tail(ms))

\* OpEmitter::emitDecl, OpEmitter::emitDef
emitDecl ==
  /\ pc = "constructed"
  /\ "decl" \notin emitted
  /\ declOut' = classWriteDeclTo(ClassName, traits, methods)
  /\ emitted' = emitted \cup {"decl"}
  /\ UNCHANGED <<op, pc, traits, methods, defOut>>

emitDef ==
  /\ pc = "constructed"
  /\ "def" \notin emitted
  /\ defOut' = classWriteDefTo(ClassName, methods)
  /\ emitted' = emitted \cup {"def"}
  /\ UNCHANGED <<op, pc, traits, methods, declOut>>

(***************************************************************************)
(* The generator run on one operation description.                         *)
(***************************************************************************)
Init ==
  /\ op \in OpSpecs
  /\ pc = "genTraits"
  /\ traits = <<>>
  /\ methods = <<>>
  /\ emitted = {}
  /\ declOut = <<>>
  /\ defOut = <<>>

Next ==
  \/ genTraits
  \/ genOpNameGetter
  \/ genNamedOperandGetters
  \/ genNamedResultGetters
  \/ genAttrGetters
  \/ genBuilder
  \/ genParser
  \/ genPrinter
  \/ genVerifier
  \/ genCanonicalizerDecls
  \/ genFolderDecls
  \/ emitDecl
  \/ emitDef

Spec == Init /\ [][Next]_vars

(***************************************************************************)
(* The renderer run on a class holding one method with any parameter text. *)
(***************************************************************************)
RenderMethods ==
  { [retType |-> r, name |-> "build", params |-> ps, static |-> st,
     declOnly |-> d, body |-> IF d THEN <<>> ELSE CustomBody] :
    r \in {<<"void">>, <<"Value ", "*">>}, ps \in ParamTexts,
    st \in BOOLEAN, d \in BOOLEAN }

InitRender ==
  /\ op = BaseOp
  /\ pc = "constructed"
  /\ traits = <<<<"OpTrait::", "ZeroResult">>>>
  /\ methods \in {<<m>> : m \in RenderMethods}
  /\ emitted = {}
  /\ declOut = <<>>
  /\ defOut = <<>>

NextRender == emitDecl \/ emitDef

SpecRender == InitRender /\ [][NextRender]_vars

(***************************************************************************)
(* Properties of the trait list.                                           *)
(***************************************************************************)
TraitPrefix == "OpTrait::"
ResultArityHeads ==
  {"ZeroResult", "OneResult", "NResults<", "VariadicResults", "AtLeastNResults<"}
OperandArityHeads == {"NOperands<", "VariadicOperands", "AtLeastNOperands<"}

DeclaredNativeTraits(o) == SelectSeq(o.traits, LAMBDA t : t.kind = "native")

\* C1: once genTraits has run, the trait list is one result-arity trait,
\* then the declared native traits in declaration order (predicate traits
\* add nothing), then one operand-arity trait, every entry starting with
\* "OpTrait::".
C1_TraitListShape ==
  pc # "genTraits" =>
    LET native == DeclaredNativeTraits(op) IN
      /\ Len(traits) = Len(native) + 2
      /\ \A k \in 1..Len(traits) : traits[k][1] = TraitPrefix
      /\ traits[1][2] \in ResultArityHeads
      /\ \A k \in 1..Len(native) : traits[k + 1] = <<TraitPrefix, native[k].name>>
      /\ traits[Len(traits)][2] \in OperandArityHeads

C1_Witness ==
  /\ pc = "constructed"
  /\ Len(op.traits) = 2
  /\ op.traits[1].kind = "pred"
  /\ op.traits[2].kind = "native"
  /\ Len(traits) = 3

\* The operation of the scenario: operands lhs and rhs, named and not
\* variadic, one unnamed result, no attributes, the native trait Commutative.
AddScenarioOp ==
  [BaseOp EXCEPT
     !.operands = <<[name |-> "lhs", variadic |-> FALSE, pred |-> FALSE],
                    [name |-> "rhs", variadic |-> FALSE, pred |-> FALSE]>>,
     !.results = <<[name |-> "", variadic |-> FALSE, pred |-> FALSE]>>,
     !.args = <<"operand", "operand">>,
     !.traits = <<NativeTrait("Commutative")>>]

\* C2 (as amended): for the scenario operation the trait list is
\* [OneResult, Commutative, NOperands<2>::Impl]: the operand-arity trait is
\* last.
C2_AddTraitsOperandArityLast ==
  (op = AddScenarioOp /\ pc # "genTraits") =>
    traits = <<<<TraitPrefix, "OneResult">>, <<TraitPrefix, "Commutative">>,
               <<TraitPrefix, "NOperands<", "2", ">::Impl">>>>

C2_Witness == op = AddScenarioOp /\ pc = "constructed" /\ Len(traits) = 3

\* C2 as stated: the list is [OneResult, NOperands<2>::Impl, Commutative].
C2_AsStated ==
  (op = AddScenarioOp /\ pc # "genTraits") =>
    traits = <<<<TraitPrefix, "OneResult">>,
               <<TraitPrefix, "NOperands<", "2", ">::Impl">>,
               <<TraitPrefix, "Commutative">>>>

ArityEntries(ts, heads) == {k \in 1..Len(ts) : ts[k][2] \in heads}

\* C3 (as amended): without a variadic result the list holds exactly one
\* result-arity trait, ZeroResult for 0 results, OneResult for 1 and
\* NResults<r>::Impl for r >= 2; without a variadic operand it holds exactly
\* one operand-arity trait, NOperands<n>::Impl for every n, 0 and 1 included.
C3_ArityTraits ==
  pc # "genTraits" =>
    /\ (\A i \in 1..Len(op.results) : ~op.results[i].variadic) =>
         /\ Cardinality(ArityEntries(traits, ResultArityHeads)) = 1
         /\ traits[1] =
              <<TraitPrefix>>
              \o (CASE Len(op.results) = 0 -> <<"ZeroResult">>
                    [] Len(op.results) = 1 -> <<"OneResult">>
                    [] OTHER -> <<"NResults<", ToStr(Len(op.results)), ">::Impl">>)
    /\ (\A i \in 1..Len(op.operands) : ~op.operands[i].variadic) =>
         /\ Cardinality(ArityEntries(traits, OperandArityHeads)) = 1
         /\ traits[Len(traits)] =
              <<TraitPrefix, "NOperands<", ToStr(Len(op.operands)), ">::Impl">>

C3_Witness ==
  /\ pc = "constructed"
  /\ Len(op.results) = 2 /\ ~op.results[2].variadic
  /\ Len(op.operands) = 1 /\ ~op.operands[1].variadic
  /\ traits[1] = <<TraitPrefix, "NResults<", "2", ">::Impl">>

\* C3 as stated: the operand-arity trait follows the 0 / 1 / else rule of
\* the result-arity trait.
C3_OperandZeroOneElse ==
  (pc # "genTraits" /\ \A i \in 1..Len(op.operands) : ~op.operands[i].variadic) =>
    traits[Len(traits)] =
      <<TraitPrefix>>
      \o (CASE Len(op.operands) = 0 -> <<"ZeroOperands">>
            [] Len(op.operands) = 1 -> <<"OneOperand">>
            [] OTHER -> <<"NOperands<", ToStr(Len(op.operands)), ">::Impl">>)

(***************************************************************************)
(* Properties of the rendered parameter lists.                             *)
(***************************************************************************)
RECURSIVE TrimLeft(_)
TrimLeft(t) == IF t # <<>> /\ Head(t) = " " THEN TrimLeft(Tail(t)) ELSE t

RECURSIVE TrimRight(_)
TrimRight(t) ==
  IF t # <<>> /\ t[Len(t)] = " " THEN TrimRight(SubSeq(t, 1, Len(t) - 1)) ELSE t

\* An entry without the blanks around it.
Trim(t) == TrimRight(TrimLeft(t))

\* The declarators of a parameter list: its entries, each cut before its
\* first '='.
CutEntries(t) ==
  [k \in 1..Len(TopEntries(t)) |-> Declarator(TopEntries(t)[k])]

\* The parameter text of the one definition in `out`: what stands between
\* the first "(" and the last ")".
RenderedParams(out) ==
  SubSeq(out, IndexOf(out, "(") + 1, LastIndexOf(out, ")") - 1)

DefinitionRendered == "def" \in emitted /\ Len(methods) = 1 /\ ~methods[1].declOnly

\* "int a ,  Foo *b"
ExampleRendered == <<"int a", " ", ",", " ", " ", "Foo *b">>

\* C5 (as amended): for a parameter text whose default values hold no comma,
\* the definition shows the same entries in the same order, each cut before
\* its '=', up to the blanks around an entry (the blank before a removed '='
\* stays, and the entry after a cut one gets ", " in front of its own
\* blanks); "int a = 1, Foo *b" is rendered "int a ,  Foo *b", and a text
\* without '=' is rendered unchanged.
C5_DefaultsStrippedUpToBlanks ==
  (DefinitionRendered /\ ~HasCommaInDefault(methods[1].params)) =>
    LET params == methods[1].params
        rendered == RenderedParams(defOut)
    IN /\ Len(TopEntries(rendered)) = Len(TopEntries(params))
       /\ \A k \in 1..Len(TopEntries(params)) :
            Trim(TopEntries(rendered)[k]) = Trim(CutEntries(params)[k])
       /\ Count(rendered, "=") = 0
       /\ Count(params, "=") = 0 => rendered = params
       /\ params = ExampleParams => rendered = ExampleRendered

C5_Witness ==
  /\ DefinitionRendered
  /\ methods[1].params = ExampleParams
  /\ RenderedParams(defOut) = ExampleRendered

\* C5 as stated: the rendered entries are exactly the cut entries, and
\* "int a = 1, Foo *b" is rendered "int a, Foo *b".
C5_AsStated ==
  (DefinitionRendered /\ ~HasCommaInDefault(methods[1].params)) =>
    LET params == methods[1].params
        rendered == RenderedParams(defOut)
    IN /\ TopEntries(rendered) = CutEntries(params)
       /\ params = ExampleParams =>
            rendered = <<"int a", ",", " ", "Foo *b">>

(***************************************************************************)
(* Declarations against definitions.                                       *)
(***************************************************************************)
RECURSIVE JoinWithCommas(_)
JoinWithCommas(es) ==
  IF es = <<>> THEN <<>>
  ELSE IF Len(es) = 1 THEN es[1]
  ELSE es[1] \o <<",">> \o JoinWithCommas(Tail(es))

\* The declaration of method m: [static ]RetType name(params);
DeclarationOf(m) ==
  (IF m.static THEN <<"static ">> ELSE <<>>) \o m.retType
  \o (IF m.retType[Len(m.retType)] \in {"*", "&"} THEN <<>> ELSE <<" ">>)
  \o <<m.name, "(">> \o m.params \o <<")", ";">>

\* The head of the definition of method m, blanks left out: the same return
\* type, name and parameters, the default values removed.
DefinitionHeadOf(m) ==
  NoBlanks(m.retType \o <<ClassName, "::", m.name, "(">>
           \o JoinWithCommas(CutEntries(m.params)) \o <<")", " {">>)

BothRendered == emitted = {"decl", "def"}

DefinedMethods == {i \in 1..Len(methods) : ~methods[i].declOnly}

\* C4 (as amended): every method is declared in the declaration output; the
\* definition output holds one definition per method that is not
\* declaration-only and none for a declaration-only method; and the
\* definition of a method whose default values hold no comma has the same
\* return type, name and parameters as its declaration, the default values
\* removed, up to blanks.
C4_DeclDefConsistent ==
  BothRendered =>
    /\ \A i \in 1..Len(methods) : Contains(declOut, DeclarationOf(methods[i]))
    /\ Count(declOut, ";") = Len(methods)
    /\ Count(defOut, "::") = Cardinality(DefinedMethods)
    /\ \A i \in DefinedMethods :
         ~HasCommaInDefault(methods[i].params) =>
           Contains(NoBlanks(defOut), DefinitionHeadOf(methods[i]))

C4_Witness ==
  /\ BothRendered
  /\ \E i \in 1..Len(methods) : methods[i].declOnly
  /\ \E i \in DefinedMethods :
       /\ methods[i].params = ExampleParams
       /\ Contains(NoBlanks(defOut), DefinitionHeadOf(methods[i]))

\* C4 as stated: the definition of every method that is not declaration-only
\* has the parameters of its declaration with the default values removed.
C4_AsStated ==
  BothRendered =>
    \A i \in DefinedMethods :
      Contains(NoBlanks(defOut), DefinitionHeadOf(methods[i]))

(***************************************************************************)
(* Properties of the named-operand getters.                                *)
(***************************************************************************)
\* The passes that have run when pc is at one of these places.
AfterOperandGetters ==
  {"genNamedResultGetters", "genAttrGetters", "genBuilder", "genParser",
   "genPrinter", "genVerifier", "genCanonicalizerDecls", "genFolderDecls",
   "constructed"}
AfterBuilder ==
  {"genParser", "genPrinter", "genVerifier", "genCanonicalizerDecls",
   "genFolderDecls", "constructed"}
AfterVerifier == {"genCanonicalizerDecls", "genFolderDecls", "constructed"}

\* The positions (1-based) of the named operands, in operand order.
RECURSIVE NamedFrom(_, _)
NamedFrom(operands, i) ==
  IF i > Len(operands) THEN <<>>
  ELSE (IF operands[i].name # "" THEN <<i>> ELSE <<>>)
       \o NamedFrom(operands, i + 1)

OperandGetterNames == {OperandNames[i] : i \in 1..Len(OperandNames)}

\* C6: the getters that follow the op-name getter are those of the named
\* operands, in operand order, and there is none for an unnamed operand; the
\* getter of a named operand that is not variadic returns the single operand
\* at its index, and the getter of the named variadic operand (the last, at
\* index k) asserts that at least k operands exist and returns the operands
\* from k to the end.
C6_OperandGetters ==
  pc \in AfterOperandGetters =>
    LET named == NamedFrom(op.operands, 1) IN
      /\ Cardinality({j \in 1..Len(methods) :
                        methods[j].name \in OperandGetterNames}) = Len(named)
      /\ \A j \in 1..Len(named) :
           LET operand == op.operands[named[j]]
               m == methods[1 + j]
           IN /\ m.name = operand.name
              /\ m.params = <<>>
              /\ IF operand.variadic
                 THEN /\ named[j] = Len(op.operands)
                      /\ m.retType = <<"Operation::operand_range">>
                      /\ m.body = VariadicOperandBody(named[j] - 1)
                 ELSE /\ m.retType = <<"Value ", "*">>
                      /\ m.body = SingleOperandBody(named[j] - 1)

C6_Witness ==
  /\ pc = "constructed"
  /\ Len(op.operands) = 2
  /\ op.operands[1].name = "" /\ op.operands[2].name = "rhs"
  /\ op.operands[2].variadic
  /\ Len(methods) >= 2
  /\ methods[2].name = "rhs"
  /\ methods[2].body = VariadicOperandBody(1)

(***************************************************************************)
(* Properties of the verify method.                                        *)
(***************************************************************************)
VerifyMethods == {j \in 1..Len(methods) : methods[j].name = "verify"}

HasPredTrait(o) == \E i \in 1..Len(o.traits) : o.traits[i].kind = "pred"

HasNativeAttr(o) == \E i \in 1..Len(o.attributes) : ~o.attributes[i].derived

\* C7 (as amended): the class has no verify method exactly when the
\* operation has no custom verification code, no arguments (neither operands
\* nor stored attributes), no results and no predicate traits; in every
\* other case it has exactly one.  An operation with a stored attribute and
\* nothing else gets a verify method.
C7_VerifyPresence ==
  pc \in AfterVerifier =>
    Cardinality(VerifyMethods) =
      IF /\ ~op.verifier
         /\ Len(op.operands) = 0
         /\ ~HasNativeAttr(op)
         /\ Len(op.results) = 0
         /\ ~HasPredTrait(op)
      THEN 0 ELSE 1

C7_Witness ==
  /\ pc = "constructed"
  /\ ~op.verifier /\ Len(op.operands) = 0 /\ Len(op.results) = 0
  /\ ~HasPredTrait(op)
  /\ HasNativeAttr(op)
  /\ Cardinality(VerifyMethods) = 1

\* C7 as stated: no verify method exactly when there is no custom code, no
\* operands, no results and no predicate traits.
C7_AsStated ==
  pc \in AfterVerifier =>
    Cardinality(VerifyMethods) =
      IF /\ ~op.verifier
         /\ Len(op.operands) = 0
         /\ Len(op.results) = 0
         /\ ~HasPredTrait(op)
      THEN 0 ELSE 1

VerifyBody == methods[CHOOSE j \in VerifyMethods : TRUE].body

RequiresAttrCheck(a) ==
  <<"  if (!", tblgenNamePrefix, a.name,
    ") return emitOpError(\"requires attribute '", a.name>>

IfPresentGuard(a) == <<"  if (", tblgenNamePrefix, a.name, ") {">>

ConstraintCheck(a) ==
  <<")) return emitOpError(\"attribute '", a.name,
    "' failed to satisfy constraint: ">>

\* C8: in the verify body, a stored attribute has the "requires attribute"
\* failure exactly when it has neither a default value nor the optional
\* flag, and the if-present guard exactly otherwise; it has the "failed to
\* satisfy constraint" check exactly when it carries a predicate; a derived
\* attribute is not mentioned at all.
C8_AttributeChecks ==
  (pc \in AfterVerifier /\ VerifyMethods # {}) =>
    \A i \in 1..Len(op.attributes) :
      LET a == op.attributes[i] IN
        IF a.derived
        THEN Count(VerifyBody, a.name) = 0
        ELSE /\ Contains(VerifyBody, RequiresAttrCheck(a))
                  <=> (~a.hasDefault /\ ~a.optional)
             /\ Contains(VerifyBody, IfPresentGuard(a))
                  <=> (a.hasDefault \/ a.optional)
             /\ Contains(VerifyBody, ConstraintCheck(a)) <=> a.pred

C8_Witness ==
  /\ pc = "constructed"
  /\ VerifyMethods # {}
  /\ Len(op.attributes) = 2
  /\ op.attributes[1].hasDefault /\ ~op.attributes[1].pred
  /\ op.attributes[2].derived
  /\ Contains(VerifyBody, IfPresentGuard(op.attributes[1]))
  /\ ~Contains(VerifyBody, RequiresAttrCheck(op.attributes[1]))

(***************************************************************************)
(* Properties of the deduced-result-type builder.                          *)
(***************************************************************************)
RequestsOperandType(o) ==
  \E i \in 1..Len(o.traits) :
    o.traits[i] = NativeTrait("SameOperandsAndResultType")

RequestsAttrType(o) ==
  \E i \in 1..Len(o.traits) :
    o.traits[i] = NativeTrait("FirstAttrDerivedResultType")

HasVariadicResult(o) == \E i \in 1..Len(o.results) : o.results[i].variadic

\* C9 (as amended): an operation without a variadic result that requests
\* both propagations ends in the fatal error of the builder pass, and
\* nothing is rendered; an operation with a variadic result that requests
\* both raises no error.
C9_BothPropagations ==
  (RequestsOperandType(op) /\ RequestsAttrType(op)) =>
    IF HasVariadicResult(op)
    THEN pc \notin {"fatal", "crashed"}
    ELSE /\ pc \notin AfterBuilder
         /\ pc # "crashed"
         /\ emitted = {} /\ declOut = <<>> /\ defOut = <<>>

C9_Witness ==
  /\ RequestsOperandType(op) /\ RequestsAttrType(op)
  /\ ~HasVariadicResult(op)
  /\ pc = "fatal"

\* C9 as stated: whatever its results, an operation that requests both
\* propagations never gets past the builder pass.
C9_AsStated ==
  (RequestsOperandType(op) /\ RequestsAttrType(op)) =>
    /\ pc \notin AfterBuilder
    /\ emitted = {}

\* The build methods the generator adds after the custom builders.
AllBuilds == SelectSeq(methods, LAMBDA m : m.name = "build")

GeneratedBuilds == SubSeq(AllBuilds, 1 + Len(op.builders), Len(AllBuilds))

\* The build methods after the custom ones that take no result type.
DeducedBuildExpected(o) ==
  /\ ~HasVariadicResult(o)
  /\ RequestsOperandType(o) # RequestsAttrType(o)

\* C10: after the builder pass there is a third generated build method
\* exactly when the operation has no variadic result and requests exactly
\* one propagation; it has no result-type parameter, and its body pushes, for
\* each declared result, the type of the first operand (or the value or the
\* type of the first attribute).
C10_DeducedBuilder ==
  pc \in AfterBuilder =>
    /\ Len(GeneratedBuilds) = IF DeducedBuildExpected(op) THEN 3 ELSE 2
    /\ DeducedBuildExpected(op) =>
         LET m == GeneratedBuilds[3] IN
           /\ Count(m.params, "Type ") = 0
           /\ Count(m.params, "ArrayRef<Type> ") = 0
           /\ IF RequestsOperandType(op)
              THEN /\ Count(m.body, "->getType()") = Len(op.results)
                   /\ Len(op.results) > 0 =>
                        /\ Len(op.operands) > 0
                        /\ Contains(m.body,
                             <<IF op.operands[1].name # ""
                               THEN op.operands[1].name
                               ELSE GeneratedArgNames[1]>>
                             \o (IF op.operands[1].variadic
                                 THEN <<".front()">> ELSE <<>>)
                             \o <<"->getType()">>)
              ELSE /\ Count(m.body, ".getValue()") + Count(m.body, ".getType()")
                        = Len(op.results)
                   /\ Len(op.results) > 0 =>
                        /\ Len(op.attributes) > 0
                        /\ Contains(m.body,
                             <<op.attributes[1].name,
                               IF op.attributes[1].typeAttr
                               THEN ".getValue()" ELSE ".getType()">>)

(***************************************************************************)
(* Properties of the folder declarations.                                  *)
(***************************************************************************)
MethodsNamed(name) == {j \in 1..Len(methods) : methods[j].name = name}

\* C11: an operation with hasFolder gets exactly one fold method, which is
\* declaration-only; it returns a value and takes no parameter exactly when
\* the operation has one result, and takes the list of results and returns
\* bool for every other result count (0 and 2 included).  The same split on
\* "exactly one result" selects the signature of constantFold.
C11_FolderDecls ==
  pc = "constructed" =>
    /\ Cardinality(MethodsNamed("fold")) = IF op.hasFolder THEN 1 ELSE 0
    /\ Cardinality(MethodsNamed("constantFold")) =
         IF op.hasConstantFolder THEN 1 ELSE 0
    /\ \A j \in MethodsNamed("fold") :
         /\ methods[j].declOnly
         /\ IF Len(op.results) = 1
            THEN /\ methods[j].retType = <<"Value ", "*">>
                 /\ methods[j].params = <<>>
            ELSE /\ methods[j].retType = <<"bool">>
                 /\ methods[j].params =
                      <<"SmallVectorImpl<Value *> ", "&", "results">>
    /\ \A j \in MethodsNamed("constantFold") :
         /\ methods[j].declOnly
         /\ IF Len(op.results) = 1
            THEN /\ methods[j].retType = <<"Attribute">>
                 /\ Count(methods[j].params, "results") = 0
            ELSE /\ methods[j].retType = <<"LogicalResult">>
                 /\ Contains(methods[j].params,
                             <<"SmallVectorImpl<Attribute> ", "&", "results">>)

C11_Witness ==
  /\ pc = "constructed"
  /\ op.hasFolder /\ op.hasConstantFolder
  /\ Len(op.results) = 2
  /\ \E j \in MethodsNamed("fold") :
       methods[j].params = <<"SmallVectorImpl<Value *> ", "&", "results">>

(***************************************************************************)
(* Properties of the method order.                                         *)
(***************************************************************************)
NameSet(names) == {names[i] : i \in 1..Len(names)}

\* The group a method belongs to, by its name.
MethodRank(name) ==
  CASE name = "getOperationName" -> 1
    [] name \in NameSet(OperandNames) -> 2
    [] name \in NameSet(ResultNames) -> 3
    [] name \in NameSet(AttrNames) -> 4
    [] name = "build" -> 5
    [] name = "parse" -> 6
    [] name = "print" -> 7
    [] name = "verify" -> 8
    [] name = "getCanonicalizationPatterns" -> 9
    [] name = "constantFold" -> 10
    [] name = "fold" -> 11
    [] OTHER -> 0

NamesOf(ms) == [i \in 1..Len(ms) |-> ms[i].name]

\* The names a list of operands, results or attributes gives its getters.
RECURSIVE GivenNames(_)
GivenNames(members) ==
  IF members = <<>> THEN <<>>
  ELSE (IF Head(members).name # "" THEN <<Head(members).name>> ELSE <<>>)
       \o GivenNames(Tail(members))

\* The chunks of `out` that stand right before (offset -1) or right after
\* (offset 1) each occurrence of `mark`.
RECURSIVE ChunksBeside(_, _, _, _)
ChunksBeside(out, mark, offset, i) ==
  IF i > Len(out) THEN <<>>
  ELSE (IF out[i] = mark /\ i + offset \in 1..Len(out)
        THEN <<out[i + offset]>> ELSE <<>>)
       \o ChunksBeside(out, mark, offset, i + 1)

NumNativeTraits(o) ==
  Cardinality({i \in 1..Len(o.traits) : o.traits[i].kind = "native"})

ArgsOfKind(o, kind) == Cardinality({i \in 1..Len(o.args) : o.args[i] = kind})

\* The operation's attributes, the derived ones included, and its operands
\* are not as many as its arguments.
CountsDiffer(o) == Len(o.operands) + Len(o.attributes) # Len(o.args)

\* C13 (as amended): every declared argument is one operand or one stored
\* attribute, so the counts the stand-alone builder compares always agree
\* and its argument-count check raises no error for any operation: the only
\* fatal error of a run is the one for requesting both propagations.  An
\* operation whose operand count plus attribute count differs from its
\* argument count (it has a derived attribute, which is no argument) is
\* generated without error.
C13_NoArgumentCountError ==
  /\ ArgsOfKind(op, "operand") + ArgsOfKind(op, "attribute") = Len(op.args)
  /\ ArgsOfKind(op, "operand") = Len(op.operands)
  /\ pc = "fatal" => RequestsOperandType(op) /\ RequestsAttrType(op)
  /\ (CountsDiffer(op) /\ ~(RequestsOperandType(op) /\ RequestsAttrType(op)))
       => pc # "fatal"

C13_Witness ==
  /\ CountsDiffer(op)
  /\ Len(op.operands) = 1
  /\ pc = "constructed"
  /\ Len(AllBuilds) >= 2

\* C13 as stated: an operation whose operand count plus attribute count
\* differs from its argument count never gets past the builder pass.
C13_AsStated ==
  CountsDiffer(op) => pc \notin AfterBuilder

(***************************************************************************)
(* Properties of the aggregated-parameter builder.                         *)
(***************************************************************************)
AggregatedBuildBody == AllBuilds[Len(op.builders) + 2].body

NumNonVariadic(members) ==
  Cardinality({i \in 1..Len(members) : ~members[i].variadic})

HasVariadic(members) == \E i \in 1..Len(members) : members[i].variadic

\* The size assertion on `array` ("resultTypes" or "operands").
SizeAssert(array, members) ==
  <<IF array = "resultTypes" THEN "  assert(resultTypes.size()"
    ELSE "  assert(operands.size()",
    IF HasVariadic(members) THEN " >= " ELSE " == ",
    ToStr(NumNonVariadic(members))>>

SizeAssertHead(array) ==
  IF array = "resultTypes" THEN "  assert(resultTypes.size()"
  ELSE "  assert(operands.size()"

BulkPush(array) ==
  IF array = "resultTypes" THEN "->addTypes(resultTypes);"
  ELSE "->addOperands(operands);\n"

\* What the body holds for one array: its assertion, once and before the
\* push of the array, or no assertion at all.
Asserted(body, array, members) ==
  /\ Contains(body, SizeAssert(array, members))
  /\ Count(body, SizeAssertHead(array)) = 1
  /\ IndexOf(body, SizeAssertHead(array)) < IndexOf(body, BulkPush(array))

\* C14 (as amended): the body of the aggregated-parameter build method
\* pushes the result types, then the operands, then the attributes; before
\* the push of the result types it asserts the size of their array, and
\* before the push of the operands the size of theirs: '== n' when the list
\* has no variadic member (n its declared count), '>= n' when it has one
\* beside n >= 1 others; when the variadic member is the only one of its
\* list (n = 0) there is no assertion for that list.
C14_AggregatedAsserts ==
  pc \in AfterBuilder =>
    LET body == AggregatedBuildBody IN
      /\ IndexOf(body, BulkPush("resultTypes")) > 0
      /\ IndexOf(body, BulkPush("resultTypes")) < IndexOf(body, BulkPush("operands"))
      /\ IndexOf(body, BulkPush("operands"))
           < IndexOf(body, "->addAttribute(pair.first, pair.second);")
      /\ IF HasVariadic(op.results) /\ NumNonVariadic(op.results) = 0
         THEN Count(body, SizeAssertHead("resultTypes")) = 0
         ELSE Asserted(body, "resultTypes", op.results)
      /\ IF HasVariadic(op.operands) /\ NumNonVariadic(op.operands) = 0
         THEN Count(body, SizeAssertHead("operands")) = 0
         ELSE Asserted(body, "operands", op.operands)

C14_Witness ==
  /\ pc = "constructed"
  /\ Len(op.operands) = 1 /\ op.operands[1].variadic
  /\ Len(op.results) = 2 /\ op.results[2].variadic
  /\ Count(AggregatedBuildBody, SizeAssertHead("operands")) = 0
  /\ Contains(AggregatedBuildBody,
              <<"  assert(resultTypes.size()", " >= ", "1">>)

\* C14 as stated: both arrays are asserted whatever the lists hold, with
\* '>= 0' for a list made of one variadic member.
C14_AsStated ==
  pc \in AfterBuilder =>
    /\ Asserted(AggregatedBuildBody, "resultTypes", op.results)
    /\ Asserted(AggregatedBuildBody, "operands", op.operands)

(***************************************************************************)
(* Properties of the definition output.                                    *)
(***************************************************************************)
\* The definition of method m: its signature with the class name, its body
\* between braces.
DefinitionOf(m) ==
  signatureWriteDefTo(m, ClassName) \o <<" {", "\n">> \o bodyWriteTo(m.body)
  \o <<"}">>

BlankLine == <<"\n", "\n">>

\* The definitions of ms in order, each followed by a blank line, with
\* `forDeclOnly` in the place of each declaration-only method.
RECURSIVE DefinitionsOf(_, _)
DefinitionsOf(ms, forDeclOnly) ==
  IF ms = <<>> THEN <<>>
  ELSE (IF Head(ms).declOnly THEN forDeclOnly
        ELSE DefinitionOf(Head(ms)) \o BlankLine)
       \o DefinitionsOf(Tail(ms), forDeclOnly)

\* C15 (as amended): the definition output is, in method-list order, the
\* definition of each method that is not declaration-only followed by a
\* blank line, and for each declaration-only method the two newlines alone:
\* a declaration-only method adds no text but does add its blank line.
C15_DefinitionOutput ==
  "def" \in emitted =>
    /\ defOut = DefinitionsOf(methods, BlankLine)
    /\ Count(defOut, "\n") >= 2 * Len(methods)
    /\ (\A i \in 1..Len(methods) : methods[i].declOnly) =>
         defOut = Flatten([i \in 1..Len(methods) |-> BlankLine])

C15_Witness ==
  /\ "def" \in emitted
  /\ Len(methods) >= 2
  /\ methods[Len(methods)].declOnly
  /\ ~methods[1].declOnly
  /\ SubSeq(defOut, Len(defOut) - 4, Len(defOut)) = <<"}", "\n", "\n", "\n", "\n">>

\* C15 as stated: declaration-only methods add nothing to the definition
\* output.
C15_AsStated ==
  "def" \in emitted => defOut = DefinitionsOf(methods, <<>>)

(***************************************************************************)
(* Properties of the order of the checks in the verify body.               *)
(***************************************************************************)
\* The 0-based indices, as text, of the members that get a type check.
RECURSIVE CheckedIndices(_, _)
CheckedIndices(members, i) ==
  IF i > Len(members) THEN <<>>
  ELSE (IF ~members[i].variadic /\ members[i].pred
        THEN <<ToStr(i - 1)>> ELSE <<>>)
       \o CheckedIndices(members, i + 1)

StoredAttrNames(o) ==
  GivenNames(SelectSeq(o.attributes, LAMBDA a : ~a.derived))

PredTraitNames(o) ==
  NamesOf(SelectSeq(o.traits, LAMBDA t : t.kind = "pred"))

TraitCheckHead == "))\n    return emitOpError(\"failed to verify that "

\* The first chunk of each group of checks and a chunk of its last line, in
\* the order attributes, operands, results, traits.
GroupHeads == <<"  auto ", "Operand", "Result", TraitCheckHead>>
GroupTails == <<"  }", "operand", "result", TraitCheckHead>>

\* C16: the verify body holds the attribute checks in attribute order, then
\* the operand type checks in index order, then the result type checks in
\* index order, then the predicate-trait checks in trait order, and ends
\* with the custom code if there is some and with the success return if
\* not; an operand or a result has a type check exactly when it is not
\* variadic and carries a predicate, and the check reads the type at the
\* member's own index and names that index in its message.
C16_CheckOrder ==
  (pc \in AfterVerifier /\ VerifyMethods # {}) =>
    LET body == VerifyBody IN
      /\ ChunksBeside(body, "  auto ", 2, 1) = StoredAttrNames(op)
      /\ ChunksBeside(body, "Operand", 2, 1) = CheckedIndices(op.operands, 1)
      /\ ChunksBeside(body, "operand", 2, 1) = CheckedIndices(op.operands, 1)
      /\ ChunksBeside(body, "Result", 2, 1) = CheckedIndices(op.results, 1)
      /\ ChunksBeside(body, "result", 2, 1) = CheckedIndices(op.results, 1)
      /\ ChunksBeside(body, TraitCheckHead, 1, 1) = PredTraitNames(op)
      /\ \A g, h \in 1..4 :
           (g < h /\ IndexOf(body, GroupHeads[h]) > 0) =>
             LastIndexOf(body, GroupTails[g]) < IndexOf(body, GroupHeads[h])
      /\ \A i \in 1..Len(op.operands) :
           (~op.operands[i].variadic /\ op.operands[i].pred) =>
             IndexOf(body, "Operand") < IndexOf(body, "operand")
      /\ Len(body) >= 2
      /\ body[Len(body)] = "\n"
      /\ body[Len(body) - 1] =
           IF op.verifier THEN VerifierCode ELSE "  return mlir::success();"
      /\ Count(body, VerifierCode) = IF op.verifier THEN 1 ELSE 0
      /\ Count(body, "  return mlir::success();") = IF op.verifier THEN 0 ELSE 1

C16_Witness ==
  /\ pc = "constructed"
  /\ VerifyMethods # {}
  /\ op.verifier
  /\ Len(op.attributes) = 1
  /\ Len(op.operands) = 1 /\ op.operands[1].pred /\ ~op.operands[1].variadic
  /\ Len(op.results) = 1 /\ op.results[1].pred /\ ~op.results[1].variadic
  /\ op.traits = <<SecondPredTrait, PredTrait>>
  /\ ChunksBeside(VerifyBody, TraitCheckHead, 1, 1)
       = <<SecondPredTrait.name, PredTrait.name>>
  /\ LastIndexOf(VerifyBody, "result") < IndexOf(VerifyBody, TraitCheckHead)

(***************************************************************************)
(* Properties of the generated build overloads.                            *)
(***************************************************************************)
\* C17: once the builder pass has ended without a fatal error, no two of
\* the build methods the generator adds after the custom ones have the same
\* parameter list.
C17_DistinctBuildOverloads ==
  pc \in AfterBuilder =>
    \A i, j \in 1..Len(GeneratedBuilds) :
      i < j => GeneratedBuilds[i].params # GeneratedBuilds[j].params

(***************************************************************************)
(* Properties of the reads of the builder pass.                            *)
(***************************************************************************)
\* The names an operand or an attribute can go by in a build method, and
\* what a read past the end of a list yields.
ArgumentNames ==
  NameSet(OperandNames) \cup NameSet(GeneratedArgNames) \cup NameSet(AttrNames)
  \cup {Garbage}

ReferencedNames(text) == {text[k] : k \in 1..Len(text)} \cap ArgumentNames

\* C18: the builder pass never reads past the end of the operand or the
\* attribute list: it is not stopped by such a read, no build method it adds
\* holds a name obtained from one, the deduced-result-type builder of an
\* operation with results exists only if the operation has a first operand
\* (operand propagation) or a first attribute (attribute propagation), and
\* every name in the body of a generated build method is one of its
\* parameters.
C18_ReadsInBounds ==
  /\ pc # "crashed"
  /\ pc \in AfterBuilder =>
       /\ \A i \in 1..Len(GeneratedBuilds) :
            /\ Garbage \notin ReferencedNames(GeneratedBuilds[i].body)
            /\ Garbage \notin ReferencedNames(GeneratedBuilds[i].params)
            /\ ReferencedNames(GeneratedBuilds[i].body)
                 \subseteq ReferencedNames(GeneratedBuilds[i].params)
       /\ (Len(GeneratedBuilds) = 3 /\ Len(op.results) > 0) =>
            /\ RequestsOperandType(op) => Len(op.operands) > 0
            /\ RequestsAttrType(op) => Len(op.attributes) > 0

====
